---- MODULE Spec2Model ----
(***************************************************************************)
(* Model of the Coze chat client, coze_client.py: the polling flow of      *)
(* CozeClient.chat_with_polling (Spec) and the server-sent-event decoder   *)
(* of CozeClient.stream_chat (StreamSpec).  Every transport call is one    *)
(* step; what the remote service answers is chosen by the environment.     *)
(***************************************************************************)
EXTENDS Integers, Sequences, FiniteSets, TLC

\* ------------------------------------------------------------------ bounds
\* Largest max_retries argument explored.
MaxRetries == 3
\* Longest message list the list-messages endpoint returns.
MaxMsgs == 2
\* Longest sequence of lines a streaming response delivers.
MaxFrames == 3
\* Largest max_retries argument of the sessions that run interleaved.
ConcRetries == 2

\* ------------------------------------------------------------------ values
\* Python's None, and a local name that is not bound yet.
None == "<None>"
Unbound == "<unbound>"

ConvIds == {"c0", "c1"}
ChatIds == {"h0", "h1"}

\* dict.get(key, default)
DictGet(d, key, default) == IF key \in DOMAIN d THEN d[key] ELSE default

\* The {} default of status_data.get('data', {}).
EmptyDict == [k \in {} |-> None]

\* The local result before self.chat has returned.
NoResult == [unbound |-> "result"]

\* An error envelope of the service: a body without a data field.
ErrorEnvelope == [code |-> "4000", msg |-> "error"]

\* Bodies the create-chat endpoint can answer with: an error envelope, or a
\* data object holding both identifiers, one of them, or neither.
ChatEnvelopes ==
    {ErrorEnvelope}
    \cup {[data |-> [status |-> "created", conversation_id |-> c, id |-> h]] :
            c \in ConvIds, h \in ChatIds}
    \cup {[data |-> [status |-> "created", conversation_id |-> c]] : c \in ConvIds}
    \cup {[data |-> [status |-> "created", id |-> h]] : h \in ChatIds}
    \cup {[data |-> [status |-> "created"]]}

\* Status values of the service; requires_action stands for every value the
\* poller does not know.
Statuses == {"in_progress", "completed", "failed", "requires_action"}

\* Bodies the retrieve endpoint can answer with: an error envelope, a data
\* object with a status, or a data object without one.
StatusEnvelopes ==
    {ErrorEnvelope}
    \cup {[data |-> [id |-> "h", status |-> s]] : s \in Statuses}
    \cup {[data |-> [id |-> "h"]]}

\* Messages of a conversation: role, type, content (a content of None is a
\* JSON null; the last message has no content field).
Msg(r, t, c) == [role |-> r, type |-> t, content |-> c]

Messages ==
    { Msg("user", "answer", "A"),
      Msg("assistant", "function_call", "A"),
      Msg("assistant", "answer", "A"),
      Msg("assistant", "answer", "B"),
      Msg("assistant", "answer", ""),
      Msg("assistant", "answer", None),
      [role |-> "assistant", type |-> "answer"] }

MsgLists == UNION {[1..n -> Messages] : n \in 0..MaxMsgs}

\* Bodies the list-messages endpoint can answer with.
MessageEnvelopes == {ErrorEnvelope} \cup {[data |-> l] : l \in MsgLists}

\* ------------------------------------------------------------------ state
VARIABLES
    pc,               \* position of chat_with_polling
    max_retries,      \* argument
    conversation_id,  \* argument (None when not given)
    result,           \* local, the envelope self.chat returned
    conv_id,          \* local, result['data']['conversation_id']
    chat_id,          \* local, result['data']['id']
    i,                \* loop variable of the poll loop (-1: not bound)
    status,           \* local, the status of the last check
    messages,         \* local, the last fetched message list
    ret,              \* the value returned to the caller
    printed,          \* the diagnostic written to stdout
    exc,              \* the exception that left the call
    trace,            \* every transport call and wait, in order
    gen,              \* position of the stream_chat generator
    wire,             \* the lines the streaming response delivers
    pos,              \* number of lines read from the response
    out,              \* fragments yielded to the consumer
    sexc,             \* the exception that left the generator
    posts,            \* create-chat requests issued by stream_chat
    ends,             \* how often the generator has terminated, and why
    sessions          \* the chat_with_polling calls running on one client

pollVars == <<pc, max_retries, conversation_id, result, conv_id, chat_id, i, status,
              messages, ret, printed, exc, trace>>
streamVars == <<gen, wire, pos, out, sexc, posts, ends>>
vars == <<pollVars, streamVars, sessions>>

\* ------------------------------------------------------ chat_with_polling
\* Entries of trace.
ChatCallStreaming == [op |-> "chat", stream |-> TRUE, auto_save_history |-> FALSE,
                      conversation_id |-> conversation_id]
ChatCall == [op |-> "chat", stream |-> FALSE, auto_save_history |-> TRUE,
             conversation_id |-> conversation_id]
SleepCall == [op |-> "sleep"]
RetrieveCall(key, s) ==
    [op |-> "retrieve_chat", conversation_id |-> key[1], chat_id |-> key[2],
     status |-> s]
MessagesCall(key, found) ==
    [op |-> "get_messages", conversation_id |-> key[1], chat_id |-> key[2],
     found |-> found]

\* The diagnostics chat_with_polling prints.
DispatchFailedMsg == "dispatch failed"
ChatFailedMsg == "chat failed"
PollTimeoutMsg == "poll timeout"

\* The values chat_with_polling returns when the dispatch failed, when the
\* status is failed and when the retry budget is exhausted.
DispatchFailedResult == None
ChatFailedResult == None
PollTimeoutResult == None

\* 'data' not in result
DispatchFailed(envelope) == "data" \notin DOMAIN envelope

\* status == "completed"
IsCompletedOrUnknown(s) == s \notin {"in_progress", "failed"}
IsCompleted(s) == s = "completed"

\* status == "failed"
IsFailedMisspelt(s) == s = "fail"
IsFailed(s) == s = "failed"

\* The pair every status and message call of the session is keyed by.
PollKeyFromArgument == <<conversation_id, chat_id>>
PollKey == <<conv_id, chat_id>>

\* status_data.get('data', {}).get('status', '')
StatusOf(status_data) == DictGet(DictGet(status_data, "data", EmptyDict), "status", "")

\* message_data.get('data', [])
MessagesOf(message_data) == DictGet(message_data, "data", <<>>)

\* msg.get('role') == 'assistant' and msg.get('type') == 'answer'
IsAnswerAnyRole(msg) == DictGet(msg, "type", None) = "answer"
IsAnswer(msg) ==
    /\ DictGet(msg, "role", None) = "assistant"
    /\ DictGet(msg, "type", None) = "answer"

\* Index of the message the scan of the list returns at (0: none).
LastAnswerIndex(msgs) ==
    IF \E k \in 1..Len(msgs) : IsAnswer(msgs[k])
    THEN CHOOSE k \in 1..Len(msgs) :
            /\ IsAnswer(msgs[k])
            /\ \A j \in (k + 1)..Len(msgs) : ~IsAnswer(msgs[j])
    ELSE 0
FirstAnswerIndex(msgs) ==
    IF \E k \in 1..Len(msgs) : IsAnswer(msgs[k])
    THEN CHOOSE k \in 1..Len(msgs) :
            /\ IsAnswer(msgs[k])
            /\ \A j \in 1..(k - 1) : ~IsAnswer(msgs[j])
    ELSE 0

\* msg.get('content', '')
ContentOfType(msg) == DictGet(msg, "type", "")
ContentOf(msg) == DictGet(msg, "content", "")

\* return <value>, after printing <diag>
Return(value, diag) ==
    /\ pc' = "returned"
    /\ ret' = value
    /\ printed' = diag

\* The head of "for i in range(max_retries)", entered with the next index k:
\* the body runs for k < max_retries, else the loop is left and the timeout is
\* reported.
ForLoopOffByOne(k) ==
    IF k <= max_retries
    THEN /\ pc' = "sleep"
         /\ i' = k
         /\ UNCHANGED <<ret, printed>>
    ELSE /\ Return(PollTimeoutResult, PollTimeoutMsg)
         /\ UNCHANGED i
ForLoop(k) ==
    IF k < max_retries
    THEN /\ pc' = "sleep"
         /\ i' = k
         /\ UNCHANGED <<ret, printed>>
    ELSE /\ Return(PollTimeoutResult, PollTimeoutMsg)
         /\ UNCHANGED i

\* An exception leaves chat_with_polling.
RaiseCaught(e) ==
    /\ pc' = "returned"
    /\ exc' = e
Raise(e) ==
    /\ pc' = "raised"
    /\ exc' = e

\* result = self.chat(...) and the check of the envelope.
Chat ==
    /\ pc = "chat"
    /\ trace' = Append(trace, ChatCall)
    /\ UNCHANGED <<max_retries, conversation_id, status, messages, streamVars, sessions>>
    /\ \/ \E envelope \in ChatEnvelopes :
            /\ result' = envelope
            /\ IF DispatchFailed(result')
               THEN /\ Return(DispatchFailedResult, DispatchFailedMsg)
                    /\ UNCHANGED <<conv_id, chat_id, i, exc>>
               ELSE IF "conversation_id" \notin DOMAIN result'.data
               THEN /\ Raise("KeyError")
                    /\ UNCHANGED <<conv_id, chat_id, i, ret, printed>>
               ELSE IF "id" \notin DOMAIN result'.data
               THEN /\ Raise("KeyError")
                    /\ conv_id' = result'.data.conversation_id
                    /\ UNCHANGED <<chat_id, i, ret, printed>>
               ELSE /\ conv_id' = result'.data.conversation_id
                    /\ chat_id' = result'.data.id
                    /\ ForLoop(0)
                    /\ UNCHANGED exc
       \/ /\ Raise("RequestException")
          /\ UNCHANGED <<result, conv_id, chat_id, i, ret, printed>>

\* time.sleep(interval)
SleepSkipped ==
    /\ pc = "sleep"
    /\ pc' = "retrieve_chat"
    /\ UNCHANGED <<max_retries, conversation_id, result, conv_id, chat_id, i,
                   status, messages, ret, printed, exc, trace, streamVars, sessions>>
Sleep ==
    /\ pc = "sleep"
    /\ pc' = "retrieve_chat"
    /\ trace' = Append(trace, SleepCall)
    /\ UNCHANGED <<max_retries, conversation_id, result, conv_id, chat_id, i,
                   status, messages, ret, printed, exc, streamVars, sessions>>

\* status_data = self.retrieve_chat(conv_id, chat_id) and the branch on it.
RetrieveChat ==
    /\ pc = "retrieve_chat"
    /\ UNCHANGED <<max_retries, conversation_id, result, conv_id, chat_id,
                   messages, streamVars, sessions>>
    /\ \/ \E status_data \in StatusEnvelopes :
            /\ status' = StatusOf(status_data)
            /\ trace' = Append(trace, RetrieveCall(PollKey, status'))
            /\ UNCHANGED exc
            /\ IF IsCompleted(status')
               THEN /\ pc' = "get_messages"
                    /\ UNCHANGED <<i, ret, printed>>
               ELSE IF IsFailed(status')
               THEN /\ Return(ChatFailedResult, ChatFailedMsg)
                    /\ UNCHANGED i
               ELSE ForLoop(i + 1)
       \/ /\ Raise("RequestException")
          /\ trace' = Append(trace, RetrieveCall(PollKey, None))
          /\ UNCHANGED <<i, status, ret, printed>>

\* message_data = self.get_messages(conv_id, chat_id) and the scan of the list.
GetMessages ==
    /\ pc = "get_messages"
    /\ UNCHANGED <<max_retries, conversation_id, result, conv_id, chat_id,
                   status, streamVars, sessions>>
    /\ \/ \E message_data \in MessageEnvelopes :
            LET k == FirstAnswerIndex(MessagesOf(message_data)) IN
            /\ messages' = MessagesOf(message_data)
            /\ trace' = Append(trace, MessagesCall(PollKey, k > 0))
            /\ UNCHANGED exc
            /\ IF k > 0
               THEN /\ Return(ContentOf(messages'[k]), printed)
                    /\ UNCHANGED i
               ELSE ForLoop(i + 1)
       \/ /\ Raise("RequestException")
          /\ trace' = Append(trace, MessagesCall(PollKey, FALSE))
          /\ UNCHANGED <<i, messages, ret, printed>>

\* ------------------------------------------------------------ stream_chat
\* A line of the response body is the sequence of its parts: <<>> is the empty
\* line, <<"data:", text>> a data line, any other head a line of another field.
DataLine(text) == <<"data:", text>>
EventLine == <<"event:", "conversation.message.delta">>
EmptyLine == <<>>

DeltaEvent == "conversation.message.delta"
CompletedEvent == "conversation.message.completed"

\* Payload texts the service (or a broken peer) can send.
TextDeltaA == "{\"event\":\"conversation.message.delta\",\"data\":{\"content\":\"A\"}}"
TextDeltaB == "{\"event\":\"conversation.message.delta\",\"data\":{\"content\":\"B\"}}"
TextDeltaEmpty == "{\"event\":\"conversation.message.delta\",\"data\":{\"content\":\"\"}}"
TextDeltaNoContent == "{\"event\":\"conversation.message.delta\",\"data\":{}}"
TextDeltaDataString == "{\"event\":\"conversation.message.delta\",\"data\":\"A\"}"
TextCompleted == "{\"event\":\"conversation.message.completed\"}"
TextOther == "{\"event\":\"conversation.chat.in_progress\"}"
TextTruncated == "{\"event\":"
TextString == "\"[DONE]\""
TextNumber == "42"
TextList == "[1]"

PayloadTexts ==
    {TextDeltaA, TextDeltaB, TextDeltaEmpty, TextDeltaNoContent,
     TextDeltaDataString, TextCompleted, TextOther, TextTruncated, TextString,
     TextNumber, TextList}

Lines == {EmptyLine, EventLine} \cup {DataLine(t) : t \in PayloadTexts}

Wires == UNION {[1..n -> Lines] : n \in 0..MaxFrames}

\* JSON values: the type and the Python value.
JObject(fields) == [t |-> "dict", v |-> fields]
JString(str) == [t |-> "str", v |-> str]
JNumber(n) == [t |-> "int", v |-> n]
JList(l) == [t |-> "list", v |-> l]
JSONDecodeError == [error |-> "JSONDecodeError"]

\* json.loads on the payload texts.
JsonLoads(text) ==
    CASE text = TextDeltaA ->
            JObject([event |-> DeltaEvent, data |-> JObject([content |-> "A"])])
      [] text = TextDeltaB ->
            JObject([event |-> DeltaEvent, data |-> JObject([content |-> "B"])])
      [] text = TextDeltaEmpty ->
            JObject([event |-> DeltaEvent, data |-> JObject([content |-> ""])])
      [] text = TextDeltaNoContent ->
            JObject([event |-> DeltaEvent, data |-> JObject(EmptyDict)])
      [] text = TextDeltaDataString ->
            JObject([event |-> DeltaEvent, data |-> JString("A")])
      [] text = TextCompleted -> JObject([event |-> CompletedEvent])
      [] text = TextOther -> JObject([event |-> "conversation.chat.in_progress"])
      [] text = TextString -> JString("[DONE]")
      [] text = TextNumber -> JNumber(42)
      [] text = TextList -> JList(<<1>>)
      [] OTHER -> JSONDecodeError

\* line_str.startswith('data:')
StartsWithData(line) == line[1] = "data:"

\* line_str.split('data:', 1)[1].strip()
JsonStr(line) == line[2]

\* What one pass of the loop body does with a line.
Continue == [act |-> "continue"]
Break == [act |-> "break"]
Yield(content) == [act |-> "yield", content |-> content]
Raises(e) == [act |-> "raise", exc |-> e]

\* except json.JSONDecodeError: continue
OnJSONDecodeError == Continue

\* A value without a get method: data.get raises AttributeError.
OnNotADict == Raises("AttributeError")

\* elif data.get('event') == 'conversation.message.completed': break
OnCompletedContinue == Continue
OnCompleted == Break

\* if content: yield content
OnDeltaYieldAlways(content) == Yield(content)
OnDelta(content) == IF content # "" THEN Yield(content) ELSE Continue

\* The body of "for line in response.iter_lines()".
Decode(line) ==
    IF line = EmptyLine THEN Continue
    ELSE IF ~StartsWithData(line) THEN Continue
    ELSE LET data == JsonLoads(JsonStr(line)) IN
         IF "error" \in DOMAIN data THEN OnJSONDecodeError
         ELSE IF data.t # "dict" THEN OnNotADict
         ELSE IF DictGet(data.v, "event", None) = DeltaEvent
         THEN LET inner == DictGet(data.v, "data", JObject(EmptyDict)) IN
              IF inner.t # "dict" THEN OnNotADict
              ELSE OnDelta(DictGet(inner.v, "content", ""))
         ELSE IF DictGet(data.v, "event", None) = CompletedEvent
         THEN OnCompleted
         ELSE Continue

\* The create-chat request of stream_chat.
StreamRequest == [op |-> "chat", stream |-> TRUE, auto_save_history |-> FALSE]

\* The generator leaves its body: by break or exhaustion of the lines, by an
\* exception, or closed by its consumer.
Finish(state, cause) ==
    /\ gen' = state
    /\ ends' = Append(ends, cause)

\* The consumer asks for the first fragment: the body starts and posts the
\* request.
StreamStart ==
    /\ gen = "created"
    /\ gen' = "running"
    /\ posts' = Append(posts, StreamRequest)
    /\ UNCHANGED <<wire, pos, out, sexc, ends, pollVars, sessions>>

\* The loop takes the next line of the response, or finds it exhausted.
ReadLine ==
    /\ gen = "running"
    /\ UNCHANGED <<wire, posts, pollVars, sessions>>
    /\ IF pos = Len(wire)
       THEN /\ Finish("done", "exhausted")
            /\ UNCHANGED <<pos, out, sexc>>
       ELSE LET todo == Decode(wire[pos + 1]) IN
            /\ pos' = pos + 1
            /\ IF todo.act = "yield"
               THEN /\ out' = Append(out, todo.content)
                    /\ gen' = "suspended"
                    /\ UNCHANGED <<sexc, ends>>
               ELSE IF todo.act = "break"
               THEN /\ Finish("done", "completed")
                    /\ UNCHANGED <<out, sexc>>
               ELSE IF todo.act = "raise"
               THEN /\ Finish("raised", "error")
                    /\ sexc' = todo.exc
                    /\ UNCHANGED out
               ELSE UNCHANGED <<gen, out, sexc, ends>>

\* The consumer asks for the next fragment.
Resume ==
    /\ gen = "suspended"
    /\ gen' = "running"
    /\ UNCHANGED <<wire, pos, out, sexc, posts, ends, pollVars, sessions>>

\* The consumer stops: the suspended generator is closed.
CloseDrains ==
    /\ gen = "suspended"
    /\ Finish("closed", "closed")
    /\ pos' = Len(wire)
    /\ UNCHANGED <<wire, out, sexc, posts, pollVars, sessions>>
Close ==
    /\ gen = "suspended"
    /\ Finish("closed", "closed")
    /\ UNCHANGED <<wire, pos, out, sexc, posts, pollVars, sessions>>

\* ------------------------------------- chat_with_polling, several sessions
\* The calls that run interleaved on one CozeClient.  A session holds the
\* arguments and locals of its call; the client's own fields (token, bot id,
\* user id, base url) are set by __init__ and only read.  "got" and "calls"
\* record what the service answered and every call the session made.
Sessions == {"s1", "s2"}
NoSessions == [s \in {} |-> None]

\* The service gives every chat its own id.
ChatIdOf(s) == IF s = "s1" THEN "h0" ELSE "h1"

SessionEnvelopes(s) ==
    {ErrorEnvelope}
    \cup {[data |-> [status |-> "created", conversation_id |-> c, id |-> ChatIdOf(s)]] :
            c \in ConvIds}

SessionStatusEnvelopes == StatusEnvelopes

SessionMessageEnvelopes ==
    {[data |-> <<Msg("assistant", "function_call", "A")>>],
     [data |-> <<Msg("assistant", "answer", "A")>>],
     [data |-> <<Msg("user", "answer", "A"), Msg("assistant", "answer", "B")>>]}

NewSession(m) ==
    [pc |-> "chat", max_retries |-> m, got |-> NoResult, conv_id |-> Unbound,
     chat_id |-> Unbound, i |-> -1, messages |-> <<>>, ret |-> Unbound,
     printed |-> None, calls |-> <<>>]

\* The pair the status and message calls of session s are keyed by: the locals
\* conv_id and chat_id of its own call.
SessionKeyOnClient(s) ==
    LET o == CHOOSE o \in Sessions : o # s IN
    IF sessions[o].conv_id # Unbound
    THEN <<sessions[o].conv_id, sessions[o].chat_id>>
    ELSE <<sessions[s].conv_id, sessions[s].chat_id>>
SessionKey(s) == <<sessions[s].conv_id, sessions[s].chat_id>>

\* The head of "for i in range(max_retries)" of a session, see ForLoop.
SessionForLoop(st, k) ==
    IF k < st.max_retries
    THEN [st EXCEPT !.pc = "sleep", !.i = k]
    ELSE [st EXCEPT !.pc = "returned", !.ret = PollTimeoutResult,
                    !.printed = PollTimeoutMsg]

\* Session s takes the step that leaves it as st, having made the call c.
SessionStep(s, st, c) ==
    /\ sessions' = [sessions EXCEPT ![s] = [st EXCEPT !.calls = Append(@, c)]]
    /\ UNCHANGED <<pollVars, streamVars>>

\* result = self.chat(...) and the check of the envelope, in session s.
SessionChat(s) ==
    /\ sessions[s].pc = "chat"
    /\ \E envelope \in SessionEnvelopes(s) :
          LET st == [sessions[s] EXCEPT !.got = envelope] IN
          SessionStep(s,
              IF DispatchFailed(envelope)
              THEN [st EXCEPT !.pc = "returned", !.ret = DispatchFailedResult,
                              !.printed = DispatchFailedMsg]
              ELSE SessionForLoop(
                       [st EXCEPT !.conv_id = envelope.data.conversation_id,
                                  !.chat_id = envelope.data.id], 0),
              [op |-> "chat", stream |-> FALSE, auto_save_history |-> TRUE])

\* time.sleep(interval), in session s.
SessionSleep(s) ==
    /\ sessions[s].pc = "sleep"
    /\ SessionStep(s, [sessions[s] EXCEPT !.pc = "retrieve_chat"], SleepCall)

\* status_data = self.retrieve_chat(conv_id, chat_id) and the branch on it, in
\* session s.
SessionRetrieveChat(s) ==
    /\ sessions[s].pc = "retrieve_chat"
    /\ \E status_data \in SessionStatusEnvelopes :
          LET st == sessions[s]
              stat == StatusOf(status_data) IN
          SessionStep(s,
              IF IsCompleted(stat)
              THEN [st EXCEPT !.pc = "get_messages"]
              ELSE IF IsFailed(stat)
              THEN [st EXCEPT !.pc = "returned", !.ret = ChatFailedResult,
                              !.printed = ChatFailedMsg]
              ELSE SessionForLoop(st, st.i + 1),
              RetrieveCall(SessionKey(s), stat))

\* message_data = self.get_messages(conv_id, chat_id) and the scan of the list,
\* in session s.
SessionGetMessages(s) ==
    /\ sessions[s].pc = "get_messages"
    /\ \E message_data \in SessionMessageEnvelopes :
          LET st == [sessions[s] EXCEPT !.messages = MessagesOf(message_data)]
              k == FirstAnswerIndex(st.messages) IN
          SessionStep(s,
              IF k > 0
              THEN [st EXCEPT !.pc = "returned", !.ret = ContentOf(st.messages[k])]
              ELSE SessionForLoop(st, st.i + 1),
              MessagesCall(SessionKey(s), k > 0))

\* ---------------------------------------------------------- specifications
\* No stream_chat call is in progress.
StreamIdle ==
    /\ gen = "idle"
    /\ wire = <<>>
    /\ pos = 0
    /\ out = <<>>
    /\ sexc = None
    /\ posts = <<>>
    /\ ends = <<>>

\* No chat_with_polling call is in progress.
PollIdle ==
    /\ pc = "idle"
    /\ max_retries = 0
    /\ conversation_id = None
    /\ result = NoResult
    /\ conv_id = Unbound
    /\ chat_id = Unbound
    /\ i = -1
    /\ status = Unbound
    /\ messages = <<>>
    /\ ret = Unbound
    /\ printed = None
    /\ exc = None
    /\ trace = <<>>

\* A call chat_with_polling(message, conversation_id, max_retries=...).
Init ==
    /\ sessions = NoSessions
    /\ pc = "chat"
    /\ max_retries \in 0..MaxRetries
    /\ conversation_id \in {None, "c0"}
    /\ result = NoResult
    /\ conv_id = Unbound
    /\ chat_id = Unbound
    /\ i = -1
    /\ status = Unbound
    /\ messages = <<>>
    /\ ret = Unbound
    /\ printed = None
    /\ exc = None
    /\ trace = <<>>
    /\ StreamIdle

Next == Chat \/ Sleep \/ RetrieveChat \/ GetMessages

Spec == Init /\ [][Next]_vars

\* A call stream_chat(message) whose response will deliver the lines of wire.
StreamInit ==
    /\ sessions = NoSessions
    /\ PollIdle
    /\ gen = "created"
    /\ wire \in Wires
    /\ pos = 0
    /\ out = <<>>
    /\ sexc = None
    /\ posts = <<>>
    /\ ends = <<>>

StreamNext == StreamStart \/ ReadLine \/ Resume \/ Close

StreamSpec == StreamInit /\ [][StreamNext]_vars

\* A call of either method of the client: chat_with_polling or stream_chat.
ClientInit == Init \/ StreamInit

ClientNext == Next \/ StreamNext

ClientSpec == ClientInit /\ [][ClientNext]_vars

\* Two calls of chat_with_polling on one client, their steps interleaved.
ConcInit ==
    /\ PollIdle
    /\ StreamIdle
    /\ \E m \in [Sessions -> 0..ConcRetries] :
          sessions = [s \in Sessions |-> NewSession(m[s])]

ConcNext ==
    \E s \in Sessions :
        \/ SessionChat(s)
        \/ SessionSleep(s)
        \/ SessionRetrieveChat(s)
        \/ SessionGetMessages(s)

ConcSpec == ConcInit /\ [][ConcNext]_vars

\* ------------------------------------------------- properties of the poller
Min(S) == CHOOSE x \in S : \A y \in S : x <= y

\* Positions of the calls of one operation in trace.
CallsOf(op) == {k \in 1..Len(trace) : trace[k].op = op}
NumCalls(op) == Cardinality(CallsOf(op))

\* The dispatch returned an envelope holding both identifiers.
Dispatched ==
    /\ "data" \in DOMAIN result
    /\ {"conversation_id", "id"} \subseteq DOMAIN result.data

\* The status checks that returned, and the message fetches that returned.
Polled == CallsOf("retrieve_chat") \cup CallsOf("get_messages")

\* C1: every retrieve_chat and every get_messages call of a session is keyed by
\* the (conversation id, chat id) pair of the envelope the dispatch returned,
\* never by another pair such as the caller's conversation_id argument.
C1_PollKeyIsDispatchedPair ==
    \A k \in Polled :
        /\ Dispatched
        /\ trace[k].conversation_id = result.data.conversation_id
        /\ trace[k].chat_id = result.data.id

\* C1 witness: a status check and a message fetch were made in a session whose
\* caller passed a conversation id other than the dispatched one.
C1_Witness ==
    /\ Dispatched
    /\ conversation_id # None
    /\ conversation_id # result.data.conversation_id
    /\ NumCalls("retrieve_chat") >= 2
    /\ NumCalls("get_messages") >= 1

\* C2: a dispatch envelope without conversation identifier and without chat
\* identifier, the data field absent or present, ends the session in the
\* dispatch-failure outcome with no wait, no status check and no message fetch.
C2_MissingIdsIsDispatchFailure ==
    (/\ "unbound" \notin DOMAIN result
     /\ \A f \in {"conversation_id", "id"} :
            f \notin DOMAIN DictGet(result, "data", EmptyDict))
    => /\ pc = "returned"
       /\ ret = DispatchFailedResult
       /\ printed = DispatchFailedMsg
       /\ CallsOf("sleep") \cup Polled = {}

\* The contents of the assistant answers of the fetched list ('' for an answer
\* without content).
AnswerContents ==
    {IF "content" \in DOMAIN messages[k] THEN messages[k].content ELSE "" :
        k \in {j \in 1..Len(messages) :
                  messages[j].role = "assistant" /\ messages[j].type = "answer"}}

\* No check so far has resolved the session: none returned failed, no fetch
\* found an answer, no call raised.
Unresolved ==
    /\ Dispatched
    /\ exc = None
    /\ \A k \in CallsOf("retrieve_chat") : trace[k].status # "failed"
    /\ \A k \in CallsOf("get_messages") : ~trace[k].found

\* C3: when the k-th status check (k <= max_retries) is the first to return
\* completed with an assistant answer in the fetched list, and no earlier one
\* returned failed, the session returns that answer's content after exactly k
\* status checks and makes no further call; until then it keeps polling.
C3_AnswerAfterKChecks ==
    /\ \A k \in CallsOf("get_messages") :
          trace[k].found =>
              /\ k = Len(trace)
              /\ trace[k - 1].op = "retrieve_chat"
              /\ trace[k - 1].status = "completed"
              /\ pc = "returned"
              /\ ret \in AnswerContents
              /\ NumCalls("retrieve_chat") = i + 1
              /\ NumCalls("retrieve_chat") <= max_retries
    /\ (Unresolved /\ NumCalls("retrieve_chat") < max_retries) =>
          pc \in {"sleep", "retrieve_chat", "get_messages"}

\* C3 witness: the third status check is the first completed one, and the
\* answer of its list has been returned.
C3_Witness ==
    /\ pc = "returned"
    /\ NumCalls("retrieve_chat") = 3
    /\ NumCalls("get_messages") = 1
    /\ trace[Len(trace)].op = "get_messages"
    /\ trace[Len(trace)].found
    /\ ret = "B"

\* C4: a status check that returns failed ends the session at once in the
\* remote-failure outcome: it is the last call, no message fetch belongs to it;
\* a session whose first status is failed made 1 status check, 0 fetches.
C4_FailedEndsAtOnce ==
    \A k \in CallsOf("retrieve_chat") :
        trace[k].status = "failed" =>
            /\ k = Len(trace)
            /\ pc = "returned"
            /\ ret = ChatFailedResult
            /\ printed = ChatFailedMsg
            /\ (k = Min(CallsOf("retrieve_chat")) =>
                   /\ NumCalls("retrieve_chat") = 1
                   /\ NumCalls("get_messages") = 0
                   /\ NumCalls("sleep") = 1)

\* C4 witness: the status sequence [failed].
C4_Witness ==
    /\ pc = "returned"
    /\ NumCalls("retrieve_chat") = 1
    /\ trace[Len(trace)].op = "retrieve_chat"
    /\ trace[Len(trace)].status = "failed"

\* Every status check so far returned a status other than completed and failed.
AllIndeterminate ==
    /\ Dispatched
    /\ exc = None
    /\ \A k \in CallsOf("retrieve_chat") :
          trace[k].status \notin {"completed", "failed"}

\* C5: for every max_retries >= 0, a session all of whose status checks return
\* in_progress (or another status that is neither completed nor failed) ends in
\* the timeout outcome after exactly max_retries status checks and no message
\* fetch, and not before.
C5_TimeoutAfterMaxRetries ==
    AllIndeterminate =>
        /\ NumCalls("get_messages") = 0
        /\ NumCalls("retrieve_chat") <= max_retries
        /\ (pc = "returned") <=> (NumCalls("retrieve_chat") = max_retries)
        /\ (pc = "returned") => (ret = PollTimeoutResult /\ printed = PollTimeoutMsg)

\* C5 witness: max_retries status checks, all in_progress, ended in the timeout.
C5_Witness ==
    /\ AllIndeterminate
    /\ pc = "returned"
    /\ max_retries = MaxRetries
    /\ NumCalls("retrieve_chat") = max_retries
    /\ \A k \in CallsOf("retrieve_chat") : trace[k].status = "in_progress"

\* C5 witness for max_retries = 0.
C5_WitnessZero ==
    /\ AllIndeterminate
    /\ pc = "returned"
    /\ max_retries = 0

\* C6: the values returned for the timeout, for the remote failure and for the
\* dispatch failure are pairwise different.
C6_OutcomesDistinct ==
    pc = "returned" =>
        /\ printed = PollTimeoutMsg =>
              ret \notin {ChatFailedResult, DispatchFailedResult}
        /\ printed = ChatFailedMsg =>
              ret \notin {PollTimeoutResult, DispatchFailedResult}
        /\ printed = DispatchFailedMsg =>
              ret \notin {PollTimeoutResult, ChatFailedResult}

\* ------------------------------------------------ properties of the decoder
\* The wire lines that carry a delta event with a non-empty content, and the
\* content each carries.
FragmentOf ==
    [l \in {DataLine(TextDeltaA), DataLine(TextDeltaB)} |->
        IF l = DataLine(TextDeltaA) THEN "A" ELSE "B"]

\* The wire line that carries the completion event.
CompletionLine == DataLine(TextCompleted)

\* The data lines that are malformed: not JSON, or JSON that is no event object.
UnparseableLines == {DataLine(TextTruncated)}
NotAnEventLines ==
    {DataLine(TextString), DataLine(TextNumber), DataLine(TextList),
     DataLine(TextDeltaDataString)}
MalformedLines == UnparseableLines \cup NotAnEventLines

\* The lines of w before its first completion line.
RECURSIVE BeforeCompletion(_)
BeforeCompletion(w) ==
    IF w = <<>> \/ Head(w) = CompletionLine THEN <<>>
    ELSE <<Head(w)>> \o BeforeCompletion(Tail(w))

\* The non-empty delta contents of the lines of w, in order.
RECURSIVE Fragments(_)
Fragments(w) ==
    IF w = <<>> THEN <<>>
    ELSE (IF Head(w) \in DOMAIN FragmentOf THEN <<FragmentOf[Head(w)]>> ELSE <<>>)
         \o Fragments(Tail(w))

\* The fragments a stream of the lines w is to produce.
Expected(w) == Fragments(BeforeCompletion(w))

\* The generator has left its body other than by its consumer closing it.
RanToEnd == gen \in {"done", "raised"}

\* C7: for every sequence of lines, the fragments stream_chat produces are the
\* non-empty contents of the delta lines before the first completion line, in
\* order and once each; no other line contributes a fragment.
C7_FragmentsAreDeltaContents ==
    /\ out = Expected(SubSeq(wire, 1, pos))
    /\ RanToEnd => out = Expected(wire)

\* C8: once a completion line has been read, it is the last line read, the
\* generator is finished and the output is what was produced before it,
\* whatever lines follow it on the wire.
C8_NothingAfterCompletion ==
    \A k \in 1..pos :
        wire[k] = CompletionLine =>
            /\ pos = k
            /\ gen = "done"
            /\ ends = <<"completed">>
            /\ out = Fragments(SubSeq(wire, 1, k - 1))

\* C8 witness: the completion line was read after a fragment, and a delta line
\* follows it on the wire.
C8_Witness ==
    /\ pos = 2
    /\ wire[2] = CompletionLine
    /\ Len(wire) = 3
    /\ wire[3] \in DOMAIN FragmentOf
    /\ out # <<>>
    /\ gen = "done"

\* C9: a malformed data line never ends the stream: no error reaches the
\* consumer, and the delta lines that follow it before a completion line are
\* still produced.
C9_MalformedNeverTerminates ==
    (\E k \in 1..pos : wire[k] \in MalformedLines) =>
        /\ sexc = None
        /\ gen # "raised"
        /\ RanToEnd => out = Expected(wire)

\* The part of C9 the decoder keeps: a data line that is not parseable JSON is
\* skipped.
C9_UnparseableIsSkipped ==
    (/\ \E k \in 1..pos : wire[k] \in UnparseableLines
     /\ \A k \in 1..Len(wire) : wire[k] \notin NotAnEventLines) =>
        /\ sexc = None
        /\ gen # "raised"
        /\ RanToEnd => out = Expected(wire)

\* C10: a session terminates at most once, on the first completion line or on
\* the end of the lines (or closed by its consumer), and a terminated session
\* has read nothing past the line it terminated on.
C10_TerminatesOnce ==
    /\ Len(ends) <= 1
    /\ Len(ends) = 1 <=> gen \in {"done", "raised", "closed"}
    /\ \A k \in 1..Len(ends) :
          /\ ends[k] \in {"completed", "exhausted", "closed"}
          /\ ends[k] = "completed" => wire[pos] = CompletionLine
          /\ ends[k] = "exhausted" => pos = Len(wire)

\* The part of C10 the decoder keeps: never a second termination, and after a
\* termination no line is read and no fragment produced.
C10_NothingAfterTermination ==
    [][Len(ends) >= 1 => UNCHANGED <<pos, out, ends, gen>>]_vars

\* The last call of the session fetched a list and found an answer in it.
AnswerReturned ==
    /\ pc = "returned"
    /\ trace[Len(trace)].op = "get_messages"
    /\ trace[Len(trace)].found

\* C11: the value returned for a resolved answer differs from the value
\* returned for each no-result outcome, whatever the content of the answer.
C11_AnswerDistinctFromNoResult ==
    AnswerReturned =>
        ret \notin {DispatchFailedResult, ChatFailedResult, PollTimeoutResult}

\* A message with role assistant and type answer, and whether a list holds one.
HoldsAnswer(m) == m.role = "assistant" /\ m.type = "answer"
ListHoldsAnswer(l) == \E j \in 1..Len(l) : HoldsAnswer(l[j])

\* C13: a completed status whose fetched list holds no assistant answer does
\* not end the session: the next iteration (wait, then status check) follows
\* while the budget lasts, a later fetch that finds an answer returns it, and
\* with the budget used up the outcome is the timeout.
C13_NoAnswerKeepsPolling ==
    /\ (/\ pc # "raised"
        /\ Len(trace) >= 1
        /\ trace[Len(trace)].op = "get_messages"
        /\ ~ListHoldsAnswer(messages)) =>
            IF NumCalls("retrieve_chat") < max_retries
            THEN pc = "sleep"
            ELSE /\ pc = "returned"
                 /\ printed = PollTimeoutMsg
                 /\ ret = PollTimeoutResult
    /\ \A k \in CallsOf("get_messages") :
          k < Len(trace) =>
              /\ ~trace[k].found
              /\ trace[k + 1].op = "sleep"
              /\ k + 2 <= Len(trace) => trace[k + 2].op = "retrieve_chat"
    /\ AnswerReturned => ListHoldsAnswer(messages) /\ ret \in AnswerContents

\* C13 witness: a completed check without an answer was followed by a completed
\* check whose list held one, and that answer was returned.
C13_Witness ==
    /\ AnswerReturned
    /\ NumCalls("get_messages") = 2
    /\ ret = "A"

\* C13 witness for the timeout: the last check of the budget was completed
\* without an answer.
C13_WitnessTimeout ==
    /\ pc = "returned"
    /\ printed = PollTimeoutMsg
    /\ max_retries = 2
    /\ NumCalls("get_messages") = 2

\* The outcomes of a session that has returned.
Outcomes ==
    {o \in {"dispatch_failure", "succeeded", "failed", "timed_out"} :
        \/ o = "dispatch_failure" /\ printed = DispatchFailedMsg
        \/ o = "succeeded" /\ AnswerReturned
        \/ o = "failed" /\ printed = ChatFailedMsg
        \/ o = "timed_out" /\ printed = PollTimeoutMsg}

\* C14: a session whose transport calls all return ends in exactly one of the
\* four outcomes, after at most max_retries status checks and at most
\* max_retries message fetches; until then it can take a step.
C14_TerminatesInOneOutcome ==
    /\ NumCalls("retrieve_chat") <= max_retries
    /\ NumCalls("get_messages") <= max_retries
    /\ Len(trace) <= 1 + 3 * max_retries
    /\ exc # "RequestException" => pc # "raised"
    /\ pc = "returned" => Cardinality(Outcomes) = 1
    /\ pc \notin {"returned", "raised"} => ENABLED Next

\* The part of C14 the poller keeps: the bounds on the calls, one outcome for a
\* returned session, and no call after the session has ended.
C14_Bounded ==
    /\ NumCalls("retrieve_chat") <= max_retries
    /\ NumCalls("get_messages") <= max_retries
    /\ Len(trace) <= 1 + 3 * max_retries
    /\ pc = "returned" => Cardinality(Outcomes) = 1
    /\ pc \notin {"returned", "raised"} => ENABLED Next
C14_Final ==
    [][(pc \in {"returned", "raised"}) => UNCHANGED pollVars]_vars

\* C15: every status check directly follows a wait, every wait follows the
\* dispatch or the previous iteration; the waits equal the status checks, or
\* exceed them by one while the check is pending, and never exceed max_retries.
C15_WaitBeforeEveryCheck ==
    /\ \A k \in CallsOf("retrieve_chat") : k > 1 /\ trace[k - 1].op = "sleep"
    /\ \A k \in CallsOf("sleep") :
          /\ k > 1
          /\ trace[k - 1].op \in {"chat", "retrieve_chat", "get_messages"}
          /\ k < Len(trace) => trace[k + 1].op = "retrieve_chat"
    /\ NumCalls("sleep") - NumCalls("retrieve_chat") =
          (IF pc = "retrieve_chat" THEN 1 ELSE 0)
    /\ NumCalls("sleep") <= max_retries

\* C15 witness: the wait of the last iteration of the budget is done, its status
\* check is pending.
C15_Witness ==
    /\ pc = "retrieve_chat"
    /\ max_retries = MaxRetries
    /\ NumCalls("sleep") = max_retries
    /\ NumCalls("retrieve_chat") = max_retries - 1

\* The content field of a message ('' when it has none).
ContentField(m) == IF "content" \in DOMAIN m THEN m.content ELSE ""

\* C16: the answer returned is the content of the first message of the fetched
\* list, in list order, that has role assistant and type answer.
C16_FirstAnswerInListOrder ==
    AnswerReturned =>
        LET first == Min({j \in 1..Len(messages) : HoldsAnswer(messages[j])}) IN
        ret = ContentField(messages[first])

\* C16 witness: the list holds two answers and the first one was returned.
C16_Witness ==
    /\ AnswerReturned
    /\ Len(messages) = 2
    /\ HoldsAnswer(messages[1]) /\ ContentField(messages[1]) = "A"
    /\ HoldsAnswer(messages[2]) /\ ContentField(messages[2]) = "B"
    /\ ret = "A"

\* C16 witness for the skipped messages: an assistant function_call precedes
\* the answer returned.
C16_WitnessSkipped ==
    /\ AnswerReturned
    /\ Len(messages) = 2
    /\ messages[1].type = "function_call"
    /\ ret = "B"

\* C17: a transport error of the dispatch, of a status check or of a message
\* fetch leaves chat_with_polling as an exception: the failed call is the last
\* one, it is not repeated, and no outcome is returned or printed.
C17_TransportErrorPropagates ==
    /\ exc = "RequestException" =>
          /\ pc = "raised"
          /\ ret = Unbound
          /\ printed = None
          /\ trace[Len(trace)].op \in {"chat", "retrieve_chat", "get_messages"}
          /\ trace[Len(trace)].op = "chat" => "unbound" \in DOMAIN result
          /\ trace[Len(trace)].op = "retrieve_chat" => trace[Len(trace)].status = None
    /\ \A k \in CallsOf("retrieve_chat") : trace[k].status = None => k = Len(trace)
    /\ NumCalls("chat") <= 1

\* C17 witness: the second status check failed in the transport.
C17_Witness ==
    /\ exc = "RequestException"
    /\ NumCalls("retrieve_chat") = 2
    /\ trace[Len(trace)].op = "retrieve_chat"

\* C20: a message fetch directly follows a status check that returned
\* completed, and every completed check is followed by its fetch: the fetches
\* equal the completed statuses, or are one less while the fetch is pending.
Completed == {k \in CallsOf("retrieve_chat") : trace[k].status = "completed"}

C20_FetchOnlyAfterCompleted ==
    /\ \A k \in CallsOf("get_messages") : k > 1 /\ (k - 1) \in Completed
    /\ \A k \in Completed : k < Len(trace) => trace[k + 1].op = "get_messages"
    /\ Cardinality(Completed) - NumCalls("get_messages") =
          (IF pc = "get_messages" THEN 1 ELSE 0)

\* C20 witness: statuses in_progress, requires_action and completed were seen,
\* and the only fetch followed the completed one.
C20_Witness ==
    /\ NumCalls("get_messages") = 1
    /\ NumCalls("retrieve_chat") = 3
    /\ \E k \in CallsOf("retrieve_chat") : trace[k].status = "in_progress"
    /\ \E k \in CallsOf("retrieve_chat") : trace[k].status = "requires_action"

\* C18: the decoder reads lines on demand.  Before the first request nothing is
\* read; while it waits for its consumer, and after its consumer has stopped,
\* the last line read is the one that produced the last fragment handed out;
\* a consumer that stops causes no error.
C18_ReadsOnDemand ==
    /\ gen = "created" => pos = 0 /\ out = <<>> /\ posts = <<>>
    /\ gen \in {"suspended", "closed"} =>
          /\ pos >= 1
          /\ wire[pos] \in DOMAIN FragmentOf
          /\ out[Len(out)] = FragmentOf[wire[pos]]
          /\ Len(out) = Len(Fragments(SubSeq(wire, 1, pos)))
    /\ gen = "closed" => sexc = None /\ ends = <<"closed">>

\* C18 witness: the consumer stopped after the first fragment, and the lines
\* after it, a delta line among them, were never read.
C18_Witness ==
    /\ gen = "closed"
    /\ Len(out) = 1
    /\ pos < Len(wire)
    /\ wire[Len(wire)] \in DOMAIN FragmentOf

\* C19: a chat_with_polling session issues one create-chat request, with stream
\* disabled and history persistence enabled, as its first call and never again;
\* a stream_chat session issues one, with stream enabled and history
\* persistence disabled.
C19_OneCreateChatRequest ==
    /\ pc = "chat" => trace = <<>>
    /\ pc \notin {"idle", "chat"} =>
          /\ trace[1].op = "chat"
          /\ trace[1].stream = FALSE
          /\ trace[1].auto_save_history = TRUE
          /\ CallsOf("chat") = {1}
    /\ gen = "created" => posts = <<>>
    /\ gen \notin {"idle", "created"} =>
          /\ Len(posts) = 1
          /\ posts[1].op = "chat"
          /\ posts[1].stream = TRUE
          /\ posts[1].auto_save_history = FALSE

\* C19 witness: a polling session went through three iterations with a
\* completed status in each and still holds one create-chat request.
C19_Witness ==
    /\ pc = "returned"
    /\ NumCalls("retrieve_chat") = 3
    /\ NumCalls("get_messages") = 3
    /\ NumCalls("chat") = 1

\* C19 witness for stream_chat: a session that produced two fragments and ended.
C19_WitnessStream ==
    /\ gen = "done"
    /\ Len(out) = 2
    /\ Len(posts) = 1

\* ------------------------------------ properties of the interleaved sessions
\* Where a call run alone stands after the calls of log, given its max_retries
\* and the envelope its dispatch returned.
AlonePc(log, max, env) ==
    IF log = <<>> THEN "chat"
    ELSE LET last == log[Len(log)]
             checks == Cardinality({k \in 1..Len(log) : log[k].op = "retrieve_chat"})
             loop == IF checks < max THEN "sleep" ELSE "returned"
         IN  CASE last.op = "chat" ->
                    IF "data" \in DOMAIN env THEN loop ELSE "returned"
               [] last.op = "sleep" -> "retrieve_chat"
               [] last.op = "retrieve_chat" ->
                    IF last.status = "completed" THEN "get_messages"
                    ELSE IF last.status = "failed" THEN "returned"
                    ELSE loop
               [] last.op = "get_messages" ->
                    IF last.found THEN "returned" ELSE loop

\* What a call run alone returns and prints after the calls of log, the last
\* list fetched being msgs.
AloneOutcome(log, env, msgs) ==
    LET last == log[Len(log)] IN
    IF "data" \notin DOMAIN env THEN <<"<None>", "dispatch failed">>
    ELSE IF last.op = "retrieve_chat" /\ last.status = "failed"
    THEN <<"<None>", "chat failed">>
    ELSE IF last.op = "get_messages" /\ last.found
    THEN <<ContentField(msgs[Min({j \in 1..Len(msgs) : HoldsAnswer(msgs[j])})]),
           "<None>">>
    ELSE <<"<None>", "poll timeout">>

\* C12: with two sessions interleaved on one client, every status and message
\* call of a session is keyed by the pair its own dispatch returned, and the
\* session stands where, and returns what, a call run alone does after the
\* same calls and answers.
C12_SessionsIndependent ==
    \A s \in DOMAIN sessions :
        LET st == sessions[s] IN
        /\ \A k \in 1..Len(st.calls) :
              st.calls[k].op \in {"retrieve_chat", "get_messages"} =>
                  /\ "data" \in DOMAIN st.got
                  /\ st.calls[k].conversation_id = st.got.data.conversation_id
                  /\ st.calls[k].chat_id = st.got.data.id
        /\ st.pc = AlonePc(st.calls, st.max_retries, st.got)
        /\ st.pc = "returned" =>
              <<st.ret, st.printed>> = AloneOutcome(st.calls, st.got, st.messages)

\* C12 witness: both sessions are in their poll loops at once, in different
\* conversations, one about to check its status, the other about to fetch.
C12_Witness ==
    /\ DOMAIN sessions = Sessions
    /\ sessions["s1"].pc = "retrieve_chat"
    /\ sessions["s2"].pc = "get_messages"
    /\ sessions["s1"].conv_id # sessions["s2"].conv_id
    /\ Len(sessions["s1"].calls) >= 4
    /\ Len(sessions["s2"].calls) >= 4

\* C12 witness for the outcomes: one session returned an answer, the other
\* timed out.
C12_WitnessOutcomes ==
    /\ DOMAIN sessions = Sessions
    /\ sessions["s1"].pc = "returned" /\ sessions["s1"].ret = "B"
    /\ sessions["s2"].pc = "returned" /\ sessions["s2"].printed = PollTimeoutMsg
    /\ sessions["s2"].max_retries = ConcRetries

\* The single call of Spec stands where, and returns what, AlonePc and
\* AloneOutcome say (C12's reference, checked against chat_with_polling alone).
C12_AloneReference ==
    pc \notin {"idle", "raised"} =>
        /\ pc = AlonePc(trace, max_retries, result)
        /\ pc = "returned" => <<ret, printed>> = AloneOutcome(trace, result, messages)

====
